---- MODULE Spec2Model ----
(***************************************************************************)
(* Model of flask/server_with_profanity_list.py: the /generate_letter      *)
(* handler, its presence check, the profanity screening, the prompt        *)
(* construction and the consumption of the streamed completion.            *)
(*                                                                         *)
(* Text is modelled as a sequence of Unicode code points, so the character *)
(* class of the presence check, the substring test, the join of the        *)
(* matched words and the f-string interpolation are computed on the same   *)
(* data the program computes them on.                                      *)
(***************************************************************************)
EXTENDS Integers, Sequences, FiniteSets, TLC

VARIABLES profanity_list, token_limit, tagger, frame

vars == <<profanity_list, token_limit, tagger, frame>>

----------------------------------------------------------------------------
\* Bounds of the exploration.

\* longest scenario string a request may carry
MaxLen == 2
\* longest lexicon list loaded at startup (duplicates allowed)
MaxLex == 2
\* largest number of chunks a completion stream delivers
MaxChunks == 2
\* widest morpheme the tokenizer model cuts
MaxMorphLen == 2

\* 'a', U+C74C (a Hangul syllable, the last one of the default scenario),
\* U+314B (a Hangul compatibility jamo), space
Alphabet == {97, 51020, 12619, 32}

\* the words a lexicon file may list: a jamo, a syllable, two letters
Terms == {<<12619>>, <<51020>>, <<97, 97>>}

\* the handler threads of the two specifications
Slots == {1, 2}

----------------------------------------------------------------------------
\* Fixed texts of the program.

\* data.get("author", ...) default
DefaultAuthor ==
    <<47924, 47749, 32, 51089, 44032>>

\* data.get("documentType", ...) default
DefaultDocumentType ==
    <<45800, 47928>>

\* data.get("scenario", ...) default
DefaultScenario ==
    <<51452, 51228, 32, 50630, 51020>>

\* result of the presence-check rejection
ElaborateMessage ==
    <<45817, 49888, 51032, 32, 51060, 50556, 44592, 47484, 32, 51312, 44552, 47564, 32, 45908,
    32, 46308, 47140, 51452, 49892, 32, 49688, 32, 51080, 45208, 50836, 63>>

\* text before the joined words in the profanity rejection
ForbiddenPrefix ==
    <<48124, 44048, 54620, 32, 54364, 54788, 51032, 32, 45800, 50612, 44032, 32, 54252, 54632,
    46104, 50632, 49845, 45768, 45796, 46, 32, 58, 32>>

\* the separator of ", ".join
Separator ==
    <<44, 32>>

\* system_prompt up to the interpolated token_limit
SystemHead ==
    <<45817, 49888, 51008, 32, 49324, 50857, 51088, 44032, 32, 50836, 52397, 54620, 32, 53945,
    51221, 32, 51089, 44032, 51032, 32, 47928, 52404, 50752, 32, 44048, 49457, 51012, 32,
    51221, 48128, 54616, 44172, 32, 51116, 54788, 54624, 32, 49688, 32, 51080, 45716, 32,
    44544, 50416, 44592, 32, 51204, 47928, 32, 65, 73, 32, 48372, 51312, 51077, 45768, 45796,
    46, 32>>

\* system_prompt after the interpolated token_limit
SystemTail ==
    <<53664, 53360, 51012, 32, 52488, 44284, 54616, 51648, 32, 50506, 45716, 32, 48276, 50948,
    50640, 49436, 32, 54616, 45208, 51032, 32, 45800, 46973, 51004, 47196, 32, 44396, 49457,
    46108, 32, 44544, 51012, 32, 51089, 49457, 54616, 46104, 32, 44544, 51060, 32, 51473,
    44036, 50640, 32, 45130, 44592, 51648, 32, 50506, 44256, 32, 50756, 44208, 46108, 32,
    47928, 51109, 51004, 47196, 32, 47560, 47924, 47532, 46104, 46020, 47197, 32, 54644, 32,
    51452, 49464, 50836, 46, 32, 44544, 51060, 32, 45320, 47924, 32, 44600, 50612, 51656, 32,
    44163, 32, 44057, 45796, 47732, 32, 50836, 50557, 54616, 46104, 44, 32, 47560, 51648,
    47561, 32, 47928, 51109, 51008, 32, 48152, 46300, 49884, 32, 47928, 51109, 32, 48512,
    54840, 47484, 32, 54252, 54632, 54616, 50668, 32, 50756, 51204, 55176, 32, 45149, 47610,
    50612, 50556, 32, 54633, 45768, 45796, 46, 32, 51089, 44032, 51032, 32, 45824, 54364,
    51201, 51064, 32, 51089, 54408, 32, 48516, 50948, 44592, 44, 32, 47928, 52404, 51201, 32,
    53945, 51669, 32, 48143, 32, 54364, 54788, 32, 48169, 49885, 51012, 32, 47749, 54869,
    55176, 32, 48152, 50689, 54644, 32, 51452, 49464, 50836, 46, 32, 45800, 44, 32, 53581,
    49828, 53944, 32, 51060, 50808, 51032, 32, 49373, 49457, 54805, 32, 51060, 48120, 51648,
    45208, 32, 49324, 51652, 44, 32, 44536, 47548, 32, 46321, 32, 49884, 44033, 51201, 32,
    53080, 53584, 52768, 45716, 32, 49373, 49457, 54616, 44144, 45208, 32, 50836, 52397,
    54644, 49436, 45716, 32, 50504, 32, 46121, 45768, 45796, 46>>

\* user_prompt up to the interpolated author
UserHead ==
    <<45796, 51020, 32, 51312, 44148, 50640, 32, 46384, 46972, 32, 44544, 51012, 32, 51089,
    49457, 54644, 32, 51452, 49464, 50836, 46, 10, 10, 45, 32, 51089, 44032, 58, 32>>

\* user_prompt between author and documentType
UserDocType ==
    <<10, 45, 32, 44544, 51032, 32, 51333, 47448, 58, 32>>

\* user_prompt between documentType and scenario
UserScenario ==
    <<10, 45, 32, 44544, 51032, 32, 51452, 51228, 32, 48143, 32, 49345, 54889, 58, 32>>

\* user_prompt after the interpolated scenario
UserTail ==
    <<10, 10, 51312, 44148, 51032, 32, 49444, 47749, 51012, 32, 54252, 54632, 54616, 51648,
    32, 47568, 44256, 44, 32, 44544, 47564, 32, 49373, 49457, 54644, 50556, 32, 54633, 45768,
    45796, 46, 44544, 51060, 32, 51473, 44036, 50640, 32, 45130, 44592, 51648, 32, 50506,
    44256, 44, 32, 47560, 51648, 47561, 32, 47928, 51109, 44620, 51648, 32, 47588, 45124,
    47101, 44172, 32, 51060, 50612, 51256, 50556, 32, 54633, 45768, 45796, 46>>

\* str(None), what an f-string renders for a JSON null
NoneText ==
    <<78, 111, 110, 101>>

----------------------------------------------------------------------------
\* JSON values of the request body.

Str(s) == [t |-> "str", s |-> s, n |-> 0]

Num(n) == [t |-> "num", s |-> <<>>, n |-> n]

JsonNull == [t |-> "null", s |-> <<>>, n |-> 0]

\* marks a key the client did not send (never a value of the dict)
Absent == [t |-> "absent", s |-> <<>>, n |-> 0]

\* a local the handler has not assigned yet
Unset == [t |-> "unset", s |-> <<>>, n |-> 0]

IsStr(v) == v.t = "str"

\* the dict request.json yields for an object body
MkObj(a, d, s) ==
    LET given == [author |-> a, documentType |-> d, scenario |-> s]
    IN  [k \in {x \in {"author", "documentType", "scenario"} : given[x] # Absent}
            |-> given[k]]

GetNoDefault(data, key, default) ==
    IF key \in DOMAIN data THEN data[key] ELSE JsonNull

\* dict.get(key, default)
Get(data, key, default) ==
    IF key \in DOMAIN data THEN data[key] ELSE default

RECURSIVE Digits(_)
\* str(n) of a non-negative int
Digits(n) ==
    IF n < 10 THEN <<48 + n>> ELSE Digits(n \div 10) \o <<48 + (n % 10)>>

\* "{v}" inside an f-string
Format(v) ==
    CASE v.t = "str" -> v.s
      [] v.t = "num" -> Digits(v.n)
      [] OTHER -> NoneText

----------------------------------------------------------------------------
\* Presence check, tokenizer and screening.

IsLetterJamo(c) ==
    \/ c \in 65..90
    \/ c \in 97..122
    \/ c \in 12593..55203

\* the character class [A-Za-z가-힣]
IsLetter(c) ==
    \/ c \in 65..90
    \/ c \in 97..122
    \/ c \in 44032..55203

SearchLatin(s) == \E i \in 1..Len(s) : s[i] \in 65..90 \/ s[i] \in 97..122

\* re.search(r"[A-Za-z가-힣]", scenario) on a str
Search(s) == \E i \in 1..Len(s) : IsLetter(s[i])

\* word in scenario (str containment)
IsSubstr(w, s) ==
    \E i \in 0..(Len(s) - Len(w)) : SubSeq(s, i + 1, i + Len(w)) = w

\* word in scenario_tokens (list membership)
IsToken(w, tokens) == \E i \in 1..Len(tokens) : tokens[i] = w

RECURSIVE RunLen(_)
\* length of the leading run of non-blank characters
RunLen(s) ==
    IF s = <<>> \/ Head(s) = 32 THEN 0 ELSE 1 + RunLen(Tail(s))

RECURSIVE morphs(_, _)
\* tagger.morphs(scenario): the surface forms of the morphemes, in order.
\* The tagger's dictionary decides where a word is cut; it is modelled by
\* the width w at which every blank-separated word is cut.
morphs(w, s) ==
    IF s = <<>> THEN <<>>
    ELSE IF Head(s) = 32 THEN morphs(w, Tail(s))
    ELSE LET run == RunLen(s)
             n == IF run < w THEN run ELSE w
         IN  <<SubSeq(s, 1, n)>> \o morphs(w, SubSeq(s, n + 1, Len(s)))

MatchesTokenOnly(word, scenario, tokens) == IsToken(word, tokens)

\* (word in scenario) or (word in scenario_tokens)
Matches(word, scenario, tokens) ==
    IsSubstr(word, scenario) \/ IsToken(word, tokens)

\* the list comprehension over profanity_list
FoundList(lexicon, scenario, tokens) ==
    LET Hit(word) == Matches(word, scenario, tokens)
    IN  SelectSeq(lexicon, Hit)

Range(q) == {q[i] : i \in 1..Len(q)}

NoDedup(found) == {found}

\* list(set(found_words)): every order the set may be iterated in
Dedup(found) ==
    LET S == Range(found)
    IN  {q \in [1..Cardinality(S) -> S] : Range(q) = S}

RECURSIVE Join(_, _)
\* sep.join(words)
Join(sep, words) ==
    IF words = <<>> THEN <<>>
    ELSE IF Len(words) = 1 THEN words[1]
    ELSE words[1] \o sep \o Join(sep, Tail(words))

----------------------------------------------------------------------------
\* Prompt construction and responses.

system_prompt(limit) == SystemHead \o Digits(limit) \o SystemTail

user_prompt(author, documentType, scenario) ==
    UserHead \o Format(author) \o UserDocType \o Format(documentType)
        \o UserScenario \o Format(scenario) \o UserTail

\* the arguments of client.chat.completions.create
Invocation(author, documentType, scenario, limit) ==
    [system |-> system_prompt(limit),
     user |-> user_prompt(author, documentType, scenario),
     max_tokens |-> limit]

NoResponse == [status |-> 0, json |-> [pending |-> TRUE]]

\* jsonify({"isSuccessful": ..., "result": ...}) with the default status
Envelope(ok, text) ==
    [status |-> 200, json |-> [isSuccessful |-> ok, result |-> text]]

\* jsonify({"error": str(e)}), 500
ErrorResponse(e) == [status |-> 500, json |-> [error |-> e]]

TextChunk(s) == [choices |-> 1, hasDelta |-> TRUE, content |-> s]

NoDeltaChunk == [choices |-> 1, hasDelta |-> FALSE, content |-> <<>>]

NoChoicesChunk == [choices |-> 0, hasDelta |-> FALSE, content |-> <<>>]

\* what one chunk adds to generated_text
AppendReversed(text, chunk) ==
    IF chunk.hasDelta /\ chunk.content # <<>> THEN chunk.content \o text ELSE text

Accumulate(text, chunk) ==
    IF chunk.hasDelta /\ chunk.content # <<>> THEN text \o chunk.content ELSE text

----------------------------------------------------------------------------
\* Inputs.

StringsUpTo(n) == UNION {[1..k -> Alphabet] : k \in 0..n}

Lexicons == UNION {[1..k -> Terms] : k \in 0..MaxLex}

Payloads ==
    {[kind |-> k, data |-> MkObj(Absent, Absent, Absent)] :
        k \in {"unparseable", "nonobject"}}
    \cup
    {[kind |-> "object", data |-> MkObj(a, d, s)] :
        a \in {Absent, Str(<<97>>)},
        d \in {Absent, Str(<<12619>>)},
        s \in {Absent, JsonNull, Num(7)} \cup {Str(x) : x \in StringsUpTo(MaxLen)}}

\* the chunks of a stream: text "x", text "y", empty text, a chunk without
\* delta, a chunk without choices
Chunks ==
    {TextChunk(<<120>>), TextChunk(<<121>>), TextChunk(<<>>),
     NoDeltaChunk, NoChoicesChunk}

\* the chunks of the specifications that vary the requests
FewChunks == {TextChunk(<<120>>), NoChoicesChunk}

\* the requests of the specification that varies the stream
StreamPayloads ==
    {[kind |-> k, data |-> MkObj(Absent, Absent, Absent)] :
        k \in {"unparseable", "nonobject"}}
    \cup
    {[kind |-> "object", data |-> MkObj(Absent, Absent, s)] :
        s \in {Absent, JsonNull, Str(<<12619>>), Str(<<97, 97>>)}}

\* the requests of the two-thread specification
ConcPayloads ==
    {[kind |-> "object", data |-> MkObj(a, Absent, s)] :
        a \in {Absent, Str(<<97>>)},
        s \in {Absent, Str(<<12619, 51020>>), Str(<<12619>>), Str(<<97, 97>>)}}

----------------------------------------------------------------------------
\* State.

Terminal == {"Completed", "RejectedInvalidScenario", "RejectedProfanity", "Failed"}

IdleFrame ==
    [pc |-> "Idle",
     body |-> [kind |-> "none", data |-> MkObj(Absent, Absent, Absent)],
     author |-> Unset, documentType |-> Unset, scenario |-> Unset,
     scenario_tokens |-> <<>>, found_words |-> <<>>,
     morphsCalls |-> 0, createCalls |-> <<>>,
     delivered |-> <<>>, generated_text |-> <<>>,
     exc |-> "none", response |-> NoResponse]

\* module load: token_limit, the lexicon file and the tagger (lines 22-31)
Init ==
    /\ token_limit = 512
    /\ profanity_list \in Lexicons
    /\ tagger \in 1..MaxMorphLen
    /\ frame = [r \in Slots |-> IdleFrame]

Globals == <<profanity_list, token_limit, tagger>>

\* the except clause: log and answer 500
Fail(r, e) ==
    frame' = [frame EXCEPT ![r].pc = "Failed", ![r].exc = e,
                           ![r].response = ErrorResponse(e)]

\* a POST /generate_letter arrives on a free handler thread
Receive(r, P) ==
    /\ frame[r].pc = "Idle"
    /\ \E p \in P :
          frame' = [frame EXCEPT ![r] = [IdleFrame EXCEPT !.pc = "ReceivedRequest",
                                                          !.body = p]]
    /\ UNCHANGED Globals

\* data = request.json and the three data.get calls (lines 43-48)
Parse(r) ==
    /\ frame[r].pc = "ReceivedRequest"
    /\ LET b == frame[r].body IN
          CASE b.kind = "unparseable" -> Fail(r, "BadRequest")
            [] b.kind = "nonobject" -> Fail(r, "AttributeError")
            [] OTHER ->
                 frame' = [frame EXCEPT
                    ![r].pc = "Validated",
                    ![r].author = Get(b.data, "author", Str(DefaultAuthor)),
                    ![r].documentType =
                        Get(b.data, "documentType", Str(DefaultDocumentType)),
                    ![r].scenario = Get(b.data, "scenario", Str(DefaultScenario))]
    /\ UNCHANGED Globals

ScreenConsuming(r) ==
    /\ frame[r].pc = "Validated"
    /\ IsStr(frame[r].scenario)
    /\ Search(frame[r].scenario.s)
    /\ LET sc == frame[r].scenario
           tokens == morphs(tagger, sc.s)
           Keep(word) == ~Matches(word, sc.s, tokens)
       IN  /\ \E fw \in Dedup(FoundList(profanity_list, sc.s, tokens)) :
                 frame' = [frame EXCEPT
                    ![r].pc = "Screened",
                    ![r].morphsCalls = @ + 1,
                    ![r].scenario_tokens = tokens,
                    ![r].found_words = fw]
           /\ profanity_list' = SelectSeq(profanity_list, Keep)
    /\ UNCHANGED <<token_limit, tagger>>

\* the presence check, then tokenizing and screening (lines 57-77)
Screen(r) ==
    /\ frame[r].pc = "Validated"
    /\ LET sc == frame[r].scenario IN
          IF ~IsStr(sc) THEN Fail(r, "TypeError")
          ELSE IF ~Search(sc.s)
          THEN frame' = [frame EXCEPT
                    ![r].pc = "RejectedInvalidScenario",
                    ![r].response = Envelope(FALSE, ElaborateMessage)]
          ELSE LET tokens == morphs(tagger, sc.s) IN
               \E fw \in Dedup(FoundList(profanity_list, sc.s, tokens)) :
                  frame' = [frame EXCEPT
                    ![r].pc = "Screened",
                    ![r].morphsCalls = @ + 1,
                    ![r].scenario_tokens = tokens,
                    ![r].found_words = fw]
    /\ UNCHANGED Globals

\* if found_words: reject (lines 79-87)
Reject(r) ==
    /\ frame[r].pc = "Screened"
    /\ frame[r].found_words # <<>>
    /\ frame' = [frame EXCEPT
          ![r].pc = "RejectedProfanity",
          ![r].response =
              Envelope(FALSE, ForbiddenPrefix \o Join(Separator, frame[r].found_words))]
    /\ UNCHANGED Globals

CreateUnscreened(r) ==
    /\ frame[r].pc = "Screened"
    /\ LET f == frame[r]
           call == Invocation(f.author, f.documentType, f.scenario, token_limit)
       IN  frame' = [frame EXCEPT ![r].pc = "Generating",
                                  ![r].createCalls = Append(@, call)]
    /\ UNCHANGED Globals

CreateRetry(r) ==
    /\ frame[r].pc = "Screened"
    /\ frame[r].found_words = <<>>
    /\ LET f == frame[r]
           call == Invocation(f.author, f.documentType, f.scenario, token_limit)
       IN  \/ frame' = [frame EXCEPT ![r].pc = "Generating",
                                     ![r].createCalls = Append(@, call)]
           \/ frame' = [frame EXCEPT ![r].pc = "Generating",
                                     ![r].createCalls = <<call, call>>]
    /\ UNCHANGED Globals

\* build the prompts and call client.chat.completions.create (lines 90-120);
\* the call returns a stream or raises
Create(r) ==
    /\ frame[r].pc = "Screened"
    /\ frame[r].found_words = <<>>
    /\ LET f == frame[r]
           call == Invocation(f.author, f.documentType, f.scenario, token_limit)
       IN  \/ frame' = [frame EXCEPT ![r].pc = "Generating",
                                     ![r].createCalls = Append(@, call)]
           \/ frame' = [frame EXCEPT ![r].pc = "Failed",
                                     ![r].createCalls = Append(@, call),
                                     ![r].exc = "APIError",
                                     ![r].response = ErrorResponse("APIError")]
    /\ UNCHANGED Globals

\* one iteration of "for chunk in chat" (lines 123-126)
NextChunk(r, K) ==
    /\ frame[r].pc = "Generating"
    /\ Len(frame[r].delivered) < MaxChunks
    /\ \E chunk \in K :
          IF chunk.choices = 0
          THEN frame' = [frame EXCEPT ![r].pc = "Failed",
                                      ![r].delivered = Append(@, chunk),
                                      ![r].exc = "IndexError",
                                      ![r].response = ErrorResponse("IndexError")]
          ELSE frame' = [frame EXCEPT
                    ![r].delivered = Append(@, chunk),
                    ![r].generated_text = Accumulate(@, chunk)]
    /\ UNCHANGED Globals

StreamRaiseSwallowed(r) ==
    /\ frame[r].pc = "Generating"
    /\ frame' = [frame EXCEPT
          ![r].pc = "Completed",
          ![r].exc = "APIConnectionError",
          ![r].response = Envelope(TRUE, frame[r].generated_text)]
    /\ UNCHANGED Globals

\* the stream raises while it is iterated (line 123)
StreamRaise(r) ==
    /\ frame[r].pc = "Generating"
    /\ Fail(r, "APIConnectionError")
    /\ UNCHANGED Globals

\* the stream is exhausted: answer with generated_text (lines 143-148)
Finish(r) ==
    /\ frame[r].pc = "Generating"
    /\ frame' = [frame EXCEPT
          ![r].pc = "Completed",
          ![r].response = Envelope(TRUE, frame[r].generated_text)]
    /\ UNCHANGED Globals

\* the response has been sent: the call returns and its locals are gone
Return(r) ==
    /\ frame[r].pc \in Terminal
    /\ frame' = [frame EXCEPT ![r] = IdleFrame]
    /\ UNCHANGED Globals

\* one handler thread serving request after request
Next ==
    \/ Receive(1, Payloads)
    \/ Parse(1)
    \/ Screen(1)
    \/ Reject(1)
    \/ Create(1)
    \/ NextChunk(1, FewChunks)
    \/ StreamRaise(1)
    \/ Finish(1)
    \/ Return(1)

Spec == Init /\ [][Next]_vars

\* a handler thread that is running takes its next step; the stream is finite
SpecLive == Spec /\ WF_vars(Parse(1) \/ Screen(1) \/ Reject(1) \/ Create(1)
                              \/ NextChunk(1, FewChunks) \/ StreamRaise(1) \/ Finish(1))

\* the lexicons of the specifications that vary the stream or the threads
SmallLexicons ==
    {<<>>, <<<<12619>>, <<51020>>>>, <<<<97, 97>>, <<97, 97>>>>}

InitSmall ==
    /\ token_limit = 512
    /\ profanity_list \in SmallLexicons
    /\ tagger \in 1..MaxMorphLen
    /\ frame = [r \in Slots |-> IdleFrame]

\* one handler thread, every kind of chunk
NextStream ==
    \/ Receive(1, StreamPayloads)
    \/ Parse(1)
    \/ Screen(1)
    \/ Reject(1)
    \/ Create(1)
    \/ NextChunk(1, Chunks)
    \/ StreamRaise(1)
    \/ Finish(1)
    \/ Return(1)

SpecStream == InitSmall /\ [][NextStream]_vars

\* two handler threads serving requests concurrently
NextConc ==
    \E r \in Slots :
        \/ Receive(r, ConcPayloads)
        \/ Parse(r)
        \/ Screen(r)
        \/ Reject(r)
        \/ Create(r)
        \/ NextChunk(r, FewChunks)
        \/ StreamRaise(r)
        \/ Finish(r)
        \/ Return(r)

SpecConc == InitSmall /\ [][NextConc]_vars

----------------------------------------------------------------------------
\* Vocabulary of the properties.

\* a Latin letter A-Z, a-z or a Hangul syllable U+AC00..U+D7A3
Qualifying(c) == (65 <= c /\ c <= 90) \/ (97 <= c /\ c <= 122) \/ (44032 <= c /\ c <= 55203)

HasQualifying(s) == \E i \in DOMAIN s : Qualifying(s[i])

\* the lexicon terms present in the text s, by either check
Present(s) ==
    {t \in Range(profanity_list) :
        \/ \E i \in 1..(Len(s) - Len(t) + 1) : \A j \in 1..Len(t) : s[i + j - 1] = t[j]
        \/ t \in Range(morphs(tagger, s))}

\* the presence check of the request in slot r has been decided
Checked(r) == frame[r].pc \notin {"Idle", "ReceivedRequest", "Validated"}

IsEnvelope(resp, ok) ==
    /\ resp.status = 200
    /\ DOMAIN resp.json = {"isSuccessful", "result"}
    /\ resp.json.isSuccessful = ok

RECURSIVE ConcatContents(_)
\* the text contents of a sequence of chunks, first chunk first
ConcatContents(chunks) ==
    IF chunks = <<>> THEN <<>>
    ELSE (IF chunks[Len(chunks)].hasDelta THEN
              ConcatContents(SubSeq(chunks, 1, Len(chunks) - 1)) \o chunks[Len(chunks)].content
          ELSE ConcatContents(SubSeq(chunks, 1, Len(chunks) - 1)))

----------------------------------------------------------------------------
\* C1: a request whose scenario string has no Latin letter and no Hangul
\* syllable (the empty string and jamo-only strings included) is answered
\* 200 with isSuccessful = false and the fixed elaboration message, and
\* neither the tokenizer nor the gateway has been invoked for it.
C1_NoLetterElaborates ==
    \A r \in Slots :
        LET f == frame[r] IN
        (Checked(r) /\ f.scenario.t = "str" /\ ~HasQualifying(f.scenario.s)) =>
            /\ f.pc = "RejectedInvalidScenario"
            /\ IsEnvelope(f.response, FALSE)
            /\ f.response.json.result = ElaborateMessage
            /\ f.morphsCalls = 0
            /\ f.createCalls = <<>>

C1_Witness ==
    /\ frame[1].pc = "RejectedInvalidScenario"
    /\ frame[1].scenario.s = <<12619, 12619>>
    /\ frame[1].response.json.result = ElaborateMessage

\* C2 as stated: every scenario string that contains a lexicon term, as a
\* substring or as a token, is answered 200 with isSuccessful = false, no
\* gateway call, and a result listing every matched term exactly once.
C2_Original ==
    \A r \in Slots :
        LET f == frame[r] IN
        (f.pc \in Terminal /\ f.scenario.t = "str" /\ Present(f.scenario.s) # {}) =>
            /\ f.pc = "RejectedProfanity"
            /\ IsEnvelope(f.response, FALSE)
            /\ f.createCalls = <<>>
            /\ \E q \in [1..Cardinality(Present(f.scenario.s)) -> Present(f.scenario.s)] :
                  /\ Range(q) = Present(f.scenario.s)
                  /\ f.response.json.result = ForbiddenPrefix \o Join(Separator, q)

\* C2 amended: every scenario string that has a Latin letter or a Hangul
\* syllable and contains a lexicon term, as a substring or as a token, is
\* answered 200 with isSuccessful = false and no gateway call; the result is
\* the fixed prefix followed by the matched terms joined by ", ", each
\* matched term listed exactly once however often it occurs in the scenario
\* or in the lexicon list.
C2_MatchedOnce ==
    \A r \in Slots :
        LET f == frame[r] IN
        (/\ f.pc \in Terminal
         /\ f.scenario.t = "str"
         /\ HasQualifying(f.scenario.s)
         /\ Present(f.scenario.s) # {}) =>
            /\ f.pc = "RejectedProfanity"
            /\ IsEnvelope(f.response, FALSE)
            /\ f.createCalls = <<>>
            /\ \E q \in [1..Cardinality(Present(f.scenario.s)) -> Present(f.scenario.s)] :
                  /\ Range(q) = Present(f.scenario.s)
                  /\ f.response.json.result = ForbiddenPrefix \o Join(Separator, q)

C2_Witness ==
    /\ frame[1].pc = "RejectedProfanity"
    /\ Len(profanity_list) >= 2
    /\ profanity_list[1] = profanity_list[2]
    /\ frame[1].found_words = <<profanity_list[1]>>

\* C3: a request whose scenario has a qualifying letter and no lexicon term
\* by either check invokes the gateway exactly once, and two requests with
\* equal author, documentType and scenario (token_limit being shared) are
\* invoked with the same prompt pair.
C3_OneDeterministicCall ==
    /\ \A r \in Slots :
          LET f == frame[r] IN
          (/\ f.pc \in {"Generating"} \cup Terminal
           /\ f.scenario.t = "str"
           /\ HasQualifying(f.scenario.s)
           /\ Present(f.scenario.s) = {}) => Len(f.createCalls) = 1
    /\ \A r1, r2 \in Slots :
          (/\ frame[r1].createCalls # <<>>
           /\ frame[r2].createCalls # <<>>
           /\ frame[r1].author = frame[r2].author
           /\ frame[r1].documentType = frame[r2].documentType
           /\ frame[r1].scenario = frame[r2].scenario) =>
              frame[r1].createCalls = frame[r2].createCalls

C3_Witness ==
    /\ frame[1].pc = "Completed"
    /\ frame[2].pc = "Generating"
    /\ frame[1].scenario = frame[2].scenario
    /\ frame[1].author = frame[2].author
    /\ Len(frame[1].createCalls) = 1
    /\ frame[1].createCalls = frame[2].createCalls

\* C4: after a screening the matched terms are exactly the lexicon terms that
\* are a substring of the scenario or one of its tokens; the request is
\* rejected for profanity only if that set is not empty and reaches the
\* gateway only if it is empty.
C4_MatchedSetExact ==
    \A r \in Slots :
        LET f == frame[r] IN
        /\ f.morphsCalls > 0 =>
              /\ Range(f.found_words) = Present(f.scenario.s)
              /\ Range(f.found_words) \subseteq Range(profanity_list)
              /\ f.pc = "RejectedProfanity" => Present(f.scenario.s) # {}
              /\ f.pc \in {"Generating", "Completed"} => Present(f.scenario.s) = {}
        /\ f.pc = "RejectedProfanity" => f.morphsCalls > 0
        /\ f.createCalls # <<>> => f.morphsCalls > 0

C4_Witness ==
    /\ frame[1].pc = "Screened"
    /\ Len(profanity_list) = 2
    /\ profanity_list[1] # profanity_list[2]
    /\ Len(frame[1].found_words) = 1

\* the fields of an object payload after parsing: the value sent, or the default
Defaulted(f) ==
    /\ f.author = (IF "author" \in DOMAIN f.body.data
                   THEN f.body.data.author ELSE Str(DefaultAuthor))
    /\ f.documentType = (IF "documentType" \in DOMAIN f.body.data
                         THEN f.body.data.documentType ELSE Str(DefaultDocumentType))
    /\ f.scenario = (IF "scenario" \in DOMAIN f.body.data
                     THEN f.body.data.scenario ELSE Str(DefaultScenario))

\* the request in slot r failed with neither the tokenizer nor the gateway invoked
FailedBeforeScreening(r) ==
    /\ frame[r].pc = "Failed"
    /\ frame[r].morphsCalls = 0
    /\ frame[r].createCalls = <<>>

\* C5 as stated: an object payload is always validated, its missing fields
\* defaulted, and no object payload fails before screening.
C5_Original ==
    \A r \in Slots :
        LET f == frame[r] IN
        /\ (f.body.kind = "object" /\ f.pc \notin {"Idle", "ReceivedRequest"}) => Defaulted(f)
        /\ FailedBeforeScreening(r) => f.body.kind # "object"

\* C5 amended: an object payload is always validated, its missing fields
\* replaced by the defaults; a request fails before screening only when
\* its payload is not an object or its scenario field holds a value that is
\* not a string (null, a number), which raises in the presence check.
C5_ObjectValidated ==
    \A r \in Slots :
        LET f == frame[r] IN
        /\ (f.body.kind = "object" /\ f.pc \notin {"Idle", "ReceivedRequest"}) => Defaulted(f)
        /\ FailedBeforeScreening(r) =>
              \/ f.body.kind # "object"
              \/ /\ "scenario" \in DOMAIN f.body.data
                 /\ f.body.data.scenario.t # "str"

C5_Witness ==
    /\ frame[1].pc = "Validated"
    /\ DOMAIN frame[1].body.data = {}
    /\ frame[1].author = Str(DefaultAuthor)
    /\ frame[1].documentType = Str(DefaultDocumentType)
    /\ frame[1].scenario = Str(DefaultScenario)

C7_ResultIsConcatenation ==
    \A r \in Slots :
        LET f == frame[r] IN
        f.pc = "Completed" =>
            /\ IsEnvelope(f.response, TRUE)
            /\ f.response.json.result = ConcatContents(f.delivered)
            /\ f.exc = "none"

C7_Witness ==
    /\ frame[1].pc = "Completed"
    /\ Len(frame[1].delivered) >= 2
    /\ frame[1].delivered[1].content = <<120>>
    /\ frame[1].response.json.result = <<120, 121>>

\* two screened requests with the same scenario have the same decision
SameDecision ==
    \A r1, r2 \in Slots :
        (/\ frame[r1].morphsCalls > 0
         /\ frame[r2].morphsCalls > 0
         /\ frame[r1].scenario = frame[r2].scenario) =>
            /\ Range(frame[r1].found_words) = Range(frame[r2].found_words)
            /\ (frame[r1].found_words = <<>>) = (frame[r2].found_words = <<>>)
            /\ Range(frame[r1].found_words) = Present(frame[r1].scenario.s)

\* C8: no step of any handler changes the lexicon or token_limit, and
\* requests with the same scenario, repeated or interleaved with others,
\* get the same screening decision and matched-term set.
C8_NoSharedWrites ==
    /\ [][profanity_list' = profanity_list /\ token_limit' = token_limit]_vars
    /\ []SameDecision

C8_Witness ==
    /\ frame[1].pc = "RejectedProfanity"
    /\ frame[2].pc = "Screened"
    /\ frame[1].scenario = frame[2].scenario
    /\ Len(frame[1].found_words) = 2
    /\ frame[1].found_words # frame[2].found_words

\* the order of the handler's states
Follows(from, to) ==
    \/ from = "Idle" /\ to = "ReceivedRequest"
    \/ from = "ReceivedRequest" /\ to \in {"Validated", "Failed"}
    \/ from = "Validated" /\ to \in {"Screened", "RejectedInvalidScenario", "Failed"}
    \/ from = "Screened" /\ to \in {"Generating", "RejectedProfanity", "Failed"}
    \/ from = "Generating" /\ to \in {"Generating", "Completed", "Failed"}
    \/ from \in Terminal /\ to = "Idle"

OrderedStep ==
    /\ Follows(frame[1].pc, frame'[1].pc)
    /\ frame'[1].pc = "Screened" =>
          frame[1].scenario.t = "str" /\ HasQualifying(frame[1].scenario.s)
    /\ (frame[1].pc = "Screened" /\ frame'[1].pc = "Generating") =>
          frame[1].found_words = <<>>

StatusByState ==
    /\ frame[1].pc \in {"Completed", "RejectedInvalidScenario", "RejectedProfanity"} =>
          /\ frame[1].response.status = 200
          /\ frame[1].response.json.isSuccessful = (frame[1].pc = "Completed")
    /\ frame[1].response.status \notin {0, 200} =>
          frame[1].pc = "Failed" /\ frame[1].response.status = 500
    /\ frame[1].pc \in Terminal <=> frame[1].response # NoResponse

\* C9: every received request ends in one of the four terminal states, the
\* states are passed in the order ReceivedRequest, Validated, Screened,
\* Generating (Screened only with the presence check passed, Generating only
\* with no matched term), and the status is 200 except in Failed, where it
\* is 500, with isSuccessful = true only in Completed.
C9_Lifecycle ==
    /\ (frame[1].pc = "ReceivedRequest") ~> (frame[1].pc \in Terminal)
    /\ [][OrderedStep]_vars
    /\ []StatusByState

C9_Witness ==
    /\ frame[1].pc = "Completed"
    /\ Len(frame[1].delivered) >= 1
    /\ frame[1].response.status = 200

\* C10: a request without a scenario key is handled with the default
\* scenario text: it is never rejected as an invalid scenario, it is
\* screened, and when the default matches no lexicon term the gateway is
\* invoked with the default text in the user prompt; the invalid-scenario
\* exit is taken only for a scenario string the client supplied.
C10_MissingScenarioDefault ==
    \A r \in Slots :
        LET f == frame[r] IN
        /\ (/\ f.body.kind = "object"
            /\ "scenario" \notin DOMAIN f.body.data
            /\ f.pc \notin {"Idle", "ReceivedRequest"}) =>
              /\ f.scenario = Str(DefaultScenario)
              /\ f.pc # "RejectedInvalidScenario"
              /\ Checked(r) => f.morphsCalls = 1
              /\ f.pc = "RejectedProfanity" <=>
                    (f.pc \in Terminal /\ Present(DefaultScenario) # {})
              /\ (f.pc \in Terminal /\ Present(DefaultScenario) = {}) =>
                    Len(f.createCalls) = 1
              /\ \A i \in DOMAIN f.createCalls :
                    IsSubstr(UserScenario \o DefaultScenario \o UserTail,
                             f.createCalls[i].user)
        /\ f.pc = "RejectedInvalidScenario" =>
              /\ "scenario" \in DOMAIN f.body.data
              /\ f.body.data.scenario.t = "str"
              /\ ~HasQualifying(f.body.data.scenario.s)

C10_Witness ==
    /\ frame[1].pc = "Generating"
    /\ "scenario" \notin DOMAIN frame[1].body.data
    /\ frame[1].scenario = Str(DefaultScenario)
    /\ Len(frame[1].createCalls) = 1

====
